---- MODULE Spec2Model ----
(***************************************************************************)
(* Model of the IP address value type (src/data/ip_address.c) and of the   *)
(* clock accessor SystemState::getClockInfo (src/core/api.cpp).            *)
(*                                                                         *)
(* Text is a sequence of one-character strings; a C string in memory is    *)
(* such a sequence followed by NUL.  The caller's output buffer is         *)
(* modelled by the run of bytes a call stored starting at buffer[0]: a     *)
(* call stays inside the buffer iff that run is no longer than             *)
(* buffer_size.                                                            *)
(***************************************************************************)
EXTENDS Integers, Sequences, FiniteSets, TLC

VARIABLES
    mode,         \* build mode: "A" (SYSTEMD defined) or "B" (plain text)
    address,      \* the system_ip_address_t: [family, value]
    heap,         \* Mode B allocator: id -> [st, text, frees]
    buffer_size,  \* capacity passed to the last system_ip_address_to_str
    buffer,       \* bytes the last system_ip_address_to_str stored from buffer[0]
    ret,          \* <<>> or <<r>>: value returned by the last to_str call
    exit,         \* the return statement the last to_str call left through
    lastOp,       \* the caller's last call on the address value
    prevOp,       \* the call before that
    clockEnv,     \* what the OS answers to getClockInfo's calls
    clockOut      \* what the last getClockInfo produced

ipVars == <<mode, address, heap, buffer_size, buffer, ret, exit, lastOp, prevOp>>
clockVars == <<clockEnv, clockOut>>
vars == <<mode, address, heap, buffer_size, buffer, ret, exit, lastOp, prevOp,
          clockEnv, clockOut>>

----------------------------------------------------------------------------
(* Bounds of the model *)

\* number of heap buffers the external populating code may ever allocate
MaxAllocs == 2
\* the small capacities 0..MaxBufSize are all tried
MaxBufSize == 10
\* one large capacity (INET6_ADDRSTRLEN) that every text of the model fits
BigBuf == 46
\* number of ten-minute steps the clock samples and the uptimes range over
MaxTicks == 3

----------------------------------------------------------------------------
(* Program constants *)

AF_UNSPEC == 0
AF_INET == 2
AF_INET6 == 10
\* some family the switch has no case for
AF_OTHER == 1
NULL == 0

NUL == "\\0"

Min(a, b) == IF a < b THEN a ELSE b

Take(s, n) == SubSeq(s, 1, Min(n, Len(s)))

RECURSIVE Repeat(_, _)
Repeat(x, n) == IF n = 0 THEN <<>> ELSE <<x>> \o Repeat(x, n - 1)

\* the C string held in a run of bytes: the bytes before the first NUL
RECURSIVE CStr(_)
CStr(bytes) ==
    IF bytes = <<>> \/ Head(bytes) = NUL THEN <<>>
    ELSE <<Head(bytes)>> \o CStr(Tail(bytes))

HasNul(bytes) == \E i \in 1..Len(bytes) : bytes[i] = NUL

----------------------------------------------------------------------------
(* printf conversions used by inet_ntop *)

HexDigits == <<"0","1","2","3","4","5","6","7","8","9","a","b","c","d","e","f">>

\* "%u"
RECURSIVE FmtDec(_)
FmtDec(n) ==
    IF n < 10 THEN <<HexDigits[n + 1]>>
    ELSE FmtDec(n \div 10) \o <<HexDigits[(n % 10) + 1]>>

\* "%x"
RECURSIVE FmtHex(_)
FmtHex(n) ==
    IF n < 16 THEN <<HexDigits[n + 1]>>
    ELSE FmtHex(n \div 16) \o <<HexDigits[(n % 16) + 1]>>

\* "%u.%u.%u.%u" of four bytes
Fmt4(b) ==
    FmtDec(b[1]) \o <<".">> \o FmtDec(b[2]) \o <<".">> \o
    FmtDec(b[3]) \o <<".">> \o FmtDec(b[4])

\* inet_ntop(AF_INET, src, dst, size): NULL (ENOSPC) when the text and its
\* terminator do not fit, else the text is copied with its terminator
inet_ntop4(src, size) ==
    LET tmp == Fmt4(src)
    IN  IF Len(tmp) >= size
        THEN [ok |-> FALSE, out |-> <<>>]
        ELSE [ok |-> TRUE, out |-> tmp \o <<NUL>>]

\* the eight 16-bit words of a 16-byte address
Words(src) == [i \in 1..8 |-> src[2 * i - 1] * 256 + src[2 * i]]

\* length of the run of zero words starting at word i
RECURSIVE ZeroRun(_, _)
ZeroRun(w, i) == IF i > 8 \/ w[i] # 0 THEN 0 ELSE 1 + ZeroRun(w, i + 1)

\* the leftmost longest run of at least two zero words: [base, len],
\* base = 0 when there is none (words are numbered from 1)
BestRun(w) ==
    LET starts == {i \in 1..8 : w[i] = 0 /\ (i = 1 \/ w[i - 1] # 0)}
        longest == {i \in starts : \A j \in starts : ZeroRun(w, j) <= ZeroRun(w, i)}
    IN  IF starts = {} THEN [base |-> 0, len |-> 0]
        ELSE LET b == CHOOSE i \in longest : \A j \in longest : i <= j
             IN  IF ZeroRun(w, b) < 2 THEN [base |-> 0, len |-> 0]
                 ELSE [base |-> b, len |-> ZeroRun(w, b)]

\* the formatting loop of inet_ntop6 from word i on
RECURSIVE Fmt6From(_, _, _, _)
Fmt6From(src, w, best, i) ==
    IF i > 8 THEN <<>>
    ELSE IF best.base # 0 /\ i >= best.base /\ i < best.base + best.len
    THEN (IF i = best.base THEN <<":">> ELSE <<>>) \o Fmt6From(src, w, best, i + 1)
    ELSE (IF i # 1 THEN <<":">> ELSE <<>>) \o
         (IF i = 7 /\ best.base = 1 /\
             (best.len = 6 \/ (best.len = 5 /\ w[6] = 65535))
          THEN Fmt4(SubSeq(src, 13, 16))
          ELSE FmtHex(w[i]) \o Fmt6From(src, w, best, i + 1))

Fmt6(src) ==
    LET w == Words(src)
        best == BestRun(w)
    IN  Fmt6From(src, w, best, 1) \o
        (IF best.base # 0 /\ best.base + best.len = 9 THEN <<":">> ELSE <<>>)

\* inet_ntop(AF_INET6, src, dst, size)
inet_ntop6(src, size) ==
    LET tmp == Fmt6(src) \o <<NUL>>
    IN  IF Len(tmp) > size
        THEN [ok |-> FALSE, out |-> <<>>]
        ELSE [ok |-> TRUE, out |-> tmp]

----------------------------------------------------------------------------
(* Inputs of the model *)

Families == {AF_UNSPEC, AF_INET, AF_INET6, AF_OTHER}

\* Mode A: contents of the 16-byte union value; v4 is its first four bytes
AddrSamples ==
    { Repeat(0, 16),                                        \* 0.0.0.0, ::
      <<127, 0, 0, 1>> \o Repeat(0, 12),                    \* 127.0.0.1, 7f00:1::
      Repeat(0, 15) \o <<1>>,                               \* ::1
      Repeat(255, 16),                                      \* 255.255.255.255, ffff:...:ffff
      Repeat(0, 10) \o <<255, 255, 10, 0, 0, 1>>,           \* ::ffff:10.0.0.1
      <<32, 1, 13, 184>> \o Repeat(0, 11) \o <<1>> }        \* 32.1.13.184, 2001:db8::1

\* Mode B: texts the populating code may store in a fresh buffer
Texts ==
    { <<>>,
      <<"1","0",".","0",".","0",".","1">>,
      <<":",":","1">> }

BufSizes == (0..MaxBufSize) \cup {BigBuf}

\* what the build does with undefined behaviour (a NULL or freed "%s" argument)
UbOutcomes == {"glibc", "SIGSEGV"}

----------------------------------------------------------------------------
(* The allocator (Mode B) *)

Ids == 1..MaxAllocs

EmptyHeap == [i \in Ids |-> [st |-> "unalloc", text |-> <<>>, frees |-> 0]]

Live(h) == {i \in Ids : h[i].st = "live"}

\* free(p): a second free of the same buffer is counted, not hidden
free(h, p) == [h EXCEPT ![p] = [st |-> "freed", text |-> @.text, frees |-> Min(@.frees + 1, 2)]]

----------------------------------------------------------------------------
(* src/data/ip_address.c *)

\* *address = (system_ip_address_t){0};
system_ip_address_init(m) ==
    [family |-> AF_UNSPEC, value |-> IF m = "A" THEN Repeat(0, 16) ELSE NULL]

\* the SYSTEMD branch of system_ip_address_to_str, with the IPv6 failure
\* breaking out of the switch instead of returning
to_str_A_v6_failure_breaks(addr, size) ==
    IF addr.family = AF_INET
    THEN LET r == inet_ntop4(SubSeq(addr.value, 1, 4), size)
         IN  IF ~r.ok THEN [ret |-> -1, exit |-> "L17", out |-> <<>>]
             ELSE [ret |-> 0, exit |-> "L19", out |-> r.out]
    ELSE IF addr.family = AF_INET6
    THEN LET r == inet_ntop6(addr.value, size)
         IN  [ret |-> -1, exit |-> "L35", out |-> r.out]
    ELSE [ret |-> -1, exit |-> "L35", out |-> <<>>]

\* the SYSTEMD branch of system_ip_address_to_str (lines 14-28, 35)
to_str_A(addr, size) ==
    IF addr.family = AF_INET
    THEN LET r == inet_ntop4(SubSeq(addr.value, 1, 4), size)
         IN  IF ~r.ok THEN [ret |-> -1, exit |-> "L17", out |-> <<>>]
             ELSE [ret |-> 0, exit |-> "L19", out |-> r.out]
    ELSE IF addr.family = AF_INET6
    THEN LET r == inet_ntop6(addr.value, size)
         IN  IF ~r.ok THEN [ret |-> -1, exit |-> "L23", out |-> <<>>]
             ELSE [ret |-> -1, exit |-> "L35", out |-> r.out]   \* break, then return -1
    ELSE [ret |-> -1, exit |-> "L35", out |-> <<>>]

\* snprintf(buffer, size, "%s", s): returns strlen(s); stores at most size-1
\* characters and a terminator, nothing when size is 0
snprintf_s(size, s) ==
    [n |-> Len(s),
     out |-> IF size = 0 THEN <<>> ELSE Take(s, size - 1) \o <<NUL>>]

\* the text snprintf's "%s" reads through address->value; a NULL or freed
\* pointer is undefined behaviour: glibc prints "(null)" for NULL and reads
\* the stale bytes of a freed buffer, or the read faults
PointedText(addr, h, ub) ==
    IF ub = "SIGSEGV" THEN [fault |-> TRUE, s |-> <<>>]
    ELSE IF addr.value = NULL
    THEN [fault |-> FALSE, s |-> <<"(","n","u","l","l",")">>]
    ELSE [fault |-> FALSE, s |-> h[addr.value].text]

IsUb(addr, h) == addr.value = NULL \/ h[addr.value].st # "live"

\* the plain-text branch of system_ip_address_to_str (lines 30-32, 35)
to_str_B(addr, h, size, ub) ==
    LET t == PointedText(addr, h, IF IsUb(addr, h) THEN ub ELSE "glibc")
        r == snprintf_s(size, t.s)
    IN  IF t.fault THEN [ret |-> -1, exit |-> "SIGSEGV", out |-> <<>>]
        ELSE IF r.n > 0 THEN [ret |-> 0, exit |-> "L31", out |-> r.out]
        ELSE [ret |-> -1, exit |-> "L35", out |-> r.out]

system_ip_address_to_str(m, addr, h, size, ub) ==
    IF m = "A" THEN to_str_A(addr, size) ELSE to_str_B(addr, h, size, ub)

\* system_ip_address_free without the final system_ip_address_init
free_without_reset(m, addr, h) ==
    [address |-> addr,
     heap |-> IF m = "B" /\ addr.value # NULL THEN free(h, addr.value) ELSE h]

\* system_ip_address_free resetting the family only, the pointer kept
free_keeps_pointer(m, addr, h) ==
    [address |-> [addr EXCEPT !.family = AF_UNSPEC],
     heap |-> IF m = "B" /\ addr.value # NULL THEN free(h, addr.value) ELSE h]

\* system_ip_address_free calling system_ip_address_init before the test of
\* address->value
free_resets_first(m, addr, h) ==
    LET a == system_ip_address_init(m)
    IN  [address |-> a,
         heap |-> IF m = "B" /\ a.value # NULL THEN free(h, a.value) ELSE h]

\* system_ip_address_free (lines 38-46): the address and the heap after it
system_ip_address_free(m, addr, h) ==
    [address |-> system_ip_address_init(m),
     heap |-> IF m = "B" /\ addr.value # NULL THEN free(h, addr.value) ELSE h]

----------------------------------------------------------------------------
(* src/core/api.cpp: SystemState::getClockInfo *)

\* The zones of the model.  "UTC" has offset 0.  "DST" is a zone one hour
\* east of UTC whose clocks are one more hour ahead from DstStart to DstEnd
\* (the 2026 rule of Europe/Berlin: 29 March 01:00 UTC to 25 October 01:00 UTC).
TimeZones == {"UTC", "DST"}
DstStart == 20541 * 86400 + 3600
DstEnd == 20751 * 86400 + 3600

\* tm_gmtoff localtime applies at instant t
UtcOffset(tz, t) ==
    IF tz = "UTC" THEN 0
    ELSE IF t >= DstStart /\ t < DstEnd THEN 7200
    ELSE 3600

\* the civil date of day number z (days since 1970-01-01)
CivilFromDays(z) ==
    LET z1 == z + 719468
        era == z1 \div 146097
        doe == z1 - era * 146097
        yoe == (doe - doe \div 1460 + doe \div 36524 - doe \div 146096) \div 365
        doy == doe - (365 * yoe + yoe \div 4 - yoe \div 100)
        mp == (5 * doy + 2) \div 153
        d == doy - (153 * mp + 2) \div 5 + 1
        m == IF mp < 10 THEN mp + 3 ELSE mp - 9
    IN  [year |-> yoe + era * 400 + (IF m <= 2 THEN 1 ELSE 0), mon |-> m, mday |-> d]

\* localtime(&t) in zone tz: the broken-down local time
localtime(tz, t) ==
    LET lt == t + UtcOffset(tz, t)
        date == CivilFromDays(lt \div 86400)
        sod == lt % 86400
    IN  [year |-> date.year, mon |-> date.mon, mday |-> date.mday,
         hour |-> sod \div 3600, min |-> (sod % 3600) \div 60, sec |-> sod % 60]

\* "%02d"
Fmt02(n) == <<HexDigits[(n \div 10) + 1], HexDigits[(n % 10) + 1]>>

\* strftime(buf, 256, "%FT%TZ", ts): the 256-byte buffer holds every result
strftime(ts) ==
    FmtDec(ts.year) \o <<"-">> \o Fmt02(ts.mon) \o <<"-">> \o Fmt02(ts.mday) \o
    <<"T">> \o Fmt02(ts.hour) \o <<":">> \o Fmt02(ts.min) \o <<":">> \o
    Fmt02(ts.sec) \o <<"Z">>

\* time(NULL): (time_t)-1 when the call fails
time(env) == IF env.time_ok THEN env.now ELSE -1

runtime_error(what) == [kind |-> "runtime_error", what |-> what]

\* getClockInfo (lines 54-92) against the answers env of the OS
getClockInfo(env) ==
    LET now == time(env)
    IN  IF ~env.localtime_now_ok
        THEN runtime_error("Failed to get current datetime.")
        ELSE LET current_datetime == strftime(localtime(env.tz, now))
             IN  IF ~env.sysinfo_ok
                 THEN runtime_error("Failed to get system uptime.")
                 ELSE LET diff == now - env.uptime
                      IN  IF ~env.localtime_boot_ok
                          THEN runtime_error("Failed to get boot datetime.")
                          ELSE [kind |-> "ClockInfo",
                                BootDatetime |-> strftime(localtime(env.tz, diff)),
                                CurrentDatetime |-> current_datetime]

\* instants the clock may show: around the two offset changes of the DST
\* zone and around a change of year, in steps of ten minutes
NowSamples ==
    {base + k * 600 : base \in {DstStart, DstEnd, 20454 * 86400}, k \in 0..MaxTicks}

\* uptimes: up to MaxTicks ten-minute steps, and one day
UptimeSamples == {k * 600 : k \in 0..MaxTicks} \cup {86400}

ClockEnvs(tz) ==
    [tz : {tz}, now : NowSamples, uptime : UptimeSamples, time_ok : BOOLEAN,
     localtime_now_ok : BOOLEAN, sysinfo_ok : BOOLEAN, localtime_boot_ok : BOOLEAN]

\* character codes of the characters a datetime holds
Ord(c) ==
    CASE c = "-" -> 45
      [] c = ":" -> 58
      [] c = "T" -> 84
      [] c = "Z" -> 90
      [] OTHER -> 48 + (CHOOSE i \in 0..9 : HexDigits[i + 1] = c)

\* a <= b in the lexicographic order of strings
RECURSIVE LexLeq(_, _)
LexLeq(a, b) ==
    IF a = <<>> THEN TRUE
    ELSE IF b = <<>> THEN FALSE
    ELSE IF Ord(Head(a)) # Ord(Head(b)) THEN Ord(Head(a)) < Ord(Head(b))
    ELSE LexLeq(Tail(a), Tail(b))

----------------------------------------------------------------------------
(* The caller's operations on one address value *)

Alive == exit # "SIGSEGV"

NoClock(tz) ==
    [tz |-> tz, now |-> 0, uptime |-> 0, time_ok |-> TRUE,
     localtime_now_ok |-> TRUE, sysinfo_ok |-> TRUE, localtime_boot_ok |-> TRUE]

InitIp(m) ==
    /\ mode = m
    /\ address = system_ip_address_init(m)
    /\ heap = EmptyHeap
    /\ buffer_size = 0
    /\ buffer = <<>>
    /\ ret = <<>>
    /\ exit = "none"
    /\ lastOp = "init"
    /\ prevOp = "none"

Called(op) == lastOp' = op /\ prevOp' = lastOp

InitCall ==
    /\ Alive
    /\ address' = system_ip_address_init(mode)
    /\ Called("init")
    /\ UNCHANGED <<mode, heap, buffer_size, buffer, ret, exit>>

\* the external code that fills the value: Mode A stores a family and raw
\* bytes, Mode B a family and a freshly allocated text buffer
Populate ==
    /\ Alive
    /\ \E f \in Families :
         IF mode = "A"
         THEN \E v \in AddrSamples :
                /\ address' = [family |-> f, value |-> v]
                /\ heap' = heap
         ELSE \E t \in Texts :
                /\ \E i \in Ids : heap[i].st = "unalloc"
                /\ LET id == CHOOSE i \in Ids :
                                /\ heap[i].st = "unalloc"
                                /\ \A j \in Ids : heap[j].st = "unalloc" => i <= j
                   IN  /\ heap' = [heap EXCEPT ![id] = [st |-> "live", text |-> t, frees |-> 0]]
                       /\ address' = [family |-> f, value |-> id]
    /\ Called("populate")
    /\ UNCHANGED <<mode, buffer_size, buffer, ret, exit>>

ToStrCall ==
    /\ Alive
    /\ \E size \in BufSizes, ub \in UbOutcomes :
         LET r == system_ip_address_to_str(mode, address, heap, size, ub)
         IN  /\ buffer_size' = size
             /\ buffer' = r.out
             /\ ret' = IF r.exit = "SIGSEGV" THEN <<>> ELSE <<r.ret>>
             /\ exit' = r.exit
    /\ Called("to_str")
    /\ UNCHANGED <<mode, address, heap>>

FreeCall ==
    /\ Alive
    /\ LET r == system_ip_address_free(mode, address, heap)
       IN  /\ address' = r.address
           /\ heap' = r.heap
    /\ Called("free")
    /\ UNCHANGED <<mode, buffer_size, buffer, ret, exit>>

Init ==
    /\ \E m \in {"A", "B"} : InitIp(m)
    /\ clockEnv = NoClock("UTC")
    /\ clockOut = [kind |-> "none"]

Next ==
    \/ InitCall /\ UNCHANGED clockVars
    \/ Populate /\ UNCHANGED clockVars
    \/ ToStrCall /\ UNCHANGED clockVars
    \/ FreeCall /\ UNCHANGED clockVars

Spec == Init /\ [][Next]_vars

----------------------------------------------------------------------------
(* The caller that keeps to the lifecycle init, populate, to_str any number
   of times, free, in the plain-text build *)

InitLifecycle ==
    /\ InitIp("B")
    /\ clockEnv = NoClock("UTC")
    /\ clockOut = [kind |-> "none"]

NextLifecycle ==
    \/ lastOp = "free" /\ InitCall /\ UNCHANGED clockVars
    \/ lastOp = "init" /\ Populate /\ UNCHANGED clockVars
    \/ lastOp \in {"populate", "to_str"} /\ ToStrCall /\ UNCHANGED clockVars
    \/ lastOp \in {"populate", "to_str"} /\ FreeCall /\ UNCHANGED clockVars

SpecLifecycle == InitLifecycle /\ [][NextLifecycle]_vars

----------------------------------------------------------------------------
(* The caller of getClockInfo on a host in one of the zones *)

InitClock ==
    /\ InitIp("A")
    /\ \E tz \in TimeZones : clockEnv = NoClock(tz)
    /\ clockOut = [kind |-> "none"]

GetClockInfoCall ==
    /\ \E env \in ClockEnvs(clockEnv.tz) :
         /\ clockEnv' = env
         /\ clockOut' = getClockInfo(env)
    /\ UNCHANGED ipVars

NextClock == GetClockInfoCall

SpecClock == InitClock /\ [][NextClock]_vars

----------------------------------------------------------------------------
(* Properties *)

AfterToStr == lastOp = "to_str"

\* the text inet_ntop yields for the address (Mode A, family IPv4 or IPv6)
Canonical(addr) ==
    IF addr.family = AF_INET THEN Fmt4(SubSeq(addr.value, 1, 4)) ELSE Fmt6(addr.value)

\* the buffer holds exactly the C string s
Holds(s) == HasNul(buffer) /\ CStr(buffer) = s

AllocCount(h) == Cardinality({i \in Ids : h[i].st # "unalloc"})
FreeCount(h) ==
    Cardinality({i \in Ids : h[i].frees >= 1}) + Cardinality({i \in Ids : h[i].frees >= 2})

\* C1: in Mode A, for family IPv4 or IPv6 and a buffer large enough for the
\* formatted text, to_str writes the canonical text ("127.0.0.1" for bytes
\* 127,0,0,1; "::" for the all-zero IPv6 value) and returns 0.
C1_ModeA_WritesTextReturns0 ==
    (/\ mode = "A"
     /\ AfterToStr
     /\ address.family \in {AF_INET, AF_INET6}
     /\ Len(Canonical(address)) + 1 <= buffer_size)
    => /\ ret = <<0>>
       /\ Holds(Canonical(address))
       /\ (address.family = AF_INET /\ SubSeq(address.value, 1, 4) = <<127, 0, 0, 1>>
             => Holds(<<"1","2","7",".","0",".","0",".","1">>))
       /\ (address.family = AF_INET6 /\ address.value = Repeat(0, 16)
             => Holds(<<":",":">>))

\* the text to_str has to produce, when there is one
HasText ==
    IF mode = "A" THEN address.family \in {AF_INET, AF_INET6} ELSE address.value # NULL
RequiredText ==
    IF mode = "A" THEN Canonical(address) ELSE heap[address.value].text

\* C2: in either mode, when the buffer is smaller than the text with its
\* terminator, to_str returns -1 and stores nothing outside the first
\* buffer_size bytes.
C2_SmallBufferFails ==
    (AfterToStr /\ HasText /\ buffer_size < Len(RequiredText) + 1)
    => /\ ret = <<-1>>
       /\ Len(buffer) <= buffer_size

\* C3: to_str right after init returns -1 in Mode A, and returns 0 with an
\* empty string in the buffer in Mode B.
C3_ToStrAfterInit ==
    (AfterToStr /\ prevOp = "init")
    => /\ mode = "A" => ret = <<-1>>
       /\ mode = "B" => ret = <<0>> /\ Holds(<<>>)

\* C4: free is idempotent: no buffer is ever freed twice, after free the
\* value equals the one init produces, and a free that follows a free
\* changes neither the value nor the heap.
C4_FreeIdempotent ==
    /\ [](\A i \in Ids : heap[i].frees <= 1)
    /\ [](lastOp = "free" => address = system_ip_address_init(mode))
    /\ [][(lastOp = "free" /\ lastOp' = "free") => (address' = address /\ heap' = heap)]_vars

C4_Witness ==
    /\ mode = "B"
    /\ lastOp = "free" /\ prevOp = "free"
    /\ \E i \in Ids : heap[i].frees = 1

\* C5: in Mode B, an owned text that fits the buffer is copied exactly and
\* to_str returns 0, whatever the family field holds.
C5_ModeB_CopiesText ==
    (/\ mode = "B"
     /\ AfterToStr
     /\ address.value # NULL
     /\ Len(heap[address.value].text) + 1 <= buffer_size)
    => \A f \in Families :
         LET r == system_ip_address_to_str("B", [address EXCEPT !.family = f],
                                           heap, buffer_size, "glibc")
         IN  /\ ret = <<0>>
             /\ Holds(heap[address.value].text)
             /\ r.ret = 0
             /\ r.out = buffer

\* C6: in Mode B, along init, populate, to_str (any number of times), free,
\* no buffer is outstanding after free (allocations minus frees is zero),
\* and to_str neither allocates nor frees.
C6_LifecycleNoLeak ==
    /\ [](lastOp = "free" => (AllocCount(heap) - FreeCount(heap) = 0 /\ Live(heap) = {}))
    /\ [][lastOp' = "to_str" => heap' = heap]_vars

C6_Witness ==
    /\ lastOp = "free" /\ prevOp = "to_str"
    /\ AllocCount(heap) = MaxAllocs

\* C7: a successful getClockInfo gives BootDatetime as the formatting of the
\* CurrentDatetime sample minus the uptime, and CurrentDatetime is
\* lexicographically >= BootDatetime.
C7_BootNotAfterCurrent ==
    (clockOut.kind = "ClockInfo" /\ clockEnv.time_ok)
    => /\ clockOut.CurrentDatetime = strftime(localtime(clockEnv.tz, clockEnv.now))
       /\ clockOut.BootDatetime =
              strftime(localtime(clockEnv.tz, clockEnv.now - clockEnv.uptime))
       /\ LexLeq(clockOut.BootDatetime, clockOut.CurrentDatetime)

AllCallsSucceed(env) ==
    env.time_ok /\ env.localtime_now_ok /\ env.sysinfo_ok /\ env.localtime_boot_ok

\* C8: getClockInfo raises the runtime error whenever an underlying call
\* failed, and returns a record only when every underlying call succeeded.
C8_FailureAborts ==
    clockOut.kind # "none"
    => /\ ~AllCallsSucceed(clockEnv) => clockOut.kind = "runtime_error"
       /\ clockOut.kind = "ClockInfo" => AllCallsSucceed(clockEnv)

\* the IPv6 formatting call of the last to_str failed / succeeded (Mode A)
V6Formatted(ok) ==
    /\ mode = "A"
    /\ AfterToStr
    /\ address.family = AF_INET6
    /\ inet_ntop6(address.value, buffer_size).ok = ok

\* C9 as stated: in Mode A, when the family is IPv6 and the formatting call
\* fails, to_str does not leave through the branch's return -1 but falls
\* through to the end of the switch.
C9_V6FailureFallsThrough ==
    V6Formatted(FALSE) => (exit # "L23" /\ exit = "L35")

\* C9 amended: in Mode A, when the family is IPv6 and the formatting call
\* fails, to_str returns -1 from inside the IPv6 branch, storing nothing;
\* it is when the call succeeds that to_str falls through the switch to
\* the final return -1, the text stored in the buffer.
C9_V6FailureReturnsInBranch ==
    /\ V6Formatted(FALSE) => (exit = "L23" /\ ret = <<-1>> /\ buffer = <<>>)
    /\ V6Formatted(TRUE) => (exit = "L35" /\ ret = <<-1>> /\ Holds(Fmt6(address.value)))

C9_Witness == V6Formatted(FALSE) /\ exit = "L23" /\ buffer_size > 0

\* C10: in Mode B the value field is always NULL or a pointer to a buffer
\* that is allocated and not freed, and to_str changes neither family nor
\* value.
C10_ValueNeverDangling ==
    /\ [](mode = "B" =>
            (address.value = NULL \/
             (heap[address.value].st = "live" /\ heap[address.value].frees = 0)))
    /\ [][lastOp' = "to_str" => address' = address]_vars

C10_Witness ==
    /\ mode = "B"
    /\ AfterToStr
    /\ address.value # NULL
    /\ \E i \in Ids : heap[i].st = "freed"

====
